---------------------------- MODULE Spec2Model ----------------------------
(***************************************************************************)
(* The ingestion pipeline of inmobiliaria-tray-app: the inbox directory,   *)
(* the watcher (ignore filter, readiness probe, channel), the upload       *)
(* manager (queue, recent list, flags) and the upload worker loop.         *)
(***************************************************************************)
EXTENDS Integers, Sequences, FiniteSets, TLC

(***************************************************************************)
(* Program constants (uploader.rs, watcher.rs)                             *)
(***************************************************************************)
MAX_RECENT == 15
RETRY_DELAY_BASE_SECS == 5
MAX_RETRIES == 10
MAX_FILE_SIZE == 200 * 1024 * 1024
HEALTH_CHECK_INTERVAL == 30
OFFLINE_SLEEP_SECS == 15
EMPTY_SLEEP_SECS == 2
BACKOFF_EXP_CAP == 6

IGNORED_EXACT ==
    { <<".", "D", "S", "_", "S", "t", "o", "r", "e">>, <<"T", "h", "u", "m", "b", "s", ".", "d", "b">>,
      <<"d", "e", "s", "k", "t", "o", "p", ".", "i", "n", "i">>,
      <<".", "l", "o", "c", "a", "l", "i", "z", "e", "d">>,
      <<"I", "c", "o", "n", "\r">> }
IGNORED_PREFIXES == { <<"~", "$">>, <<".", "_">> }
IGNORED_SUFFIXES ==
    { <<".", "t", "m", "p">>, <<".", "s", "w", "p">>,
      <<".", "c", "r", "d", "o", "w", "n", "l", "o", "a", "d">>,
      <<".", "p", "a", "r", "t">>, <<".", "p", "a", "r", "t", "i", "a", "l">> }
UPLOADED_FOLDER == <<"S", "u", "b", "i", "d", "o", "s">>

(***************************************************************************)
(* Bounds of the model                                                     *)
(***************************************************************************)
\* user operations on inbox files (create, write, close, remove) in a run
MaxFsOps == 2
\* the same, for the run in which the services are started a second time
MaxFsOpsRestart == 1
\* upload attempts the network or the server fails in a run
MaxUploadFailures == 10
\* user operations on inbox files in a run of SpecAuth
MaxFsOpsAuth == 1
\* files moved into the inbox and failed uploads in a run of SpecLive
MaxFsOpsLive == 2
MaxUploadFailuresLive == 10
\* entries put into the inbox in a run of SpecIgnore
MaxFsOpsIgnore == 3
\* records added to the recent list in a run of SpecRecent
MaxRecentAdds == 17
\* records added to the recent list in a run of SpecNotify
MaxNotifyAdds == 16
\* the user's operations on the inbox in a run of SpecValidate
MaxFsOpsValidate == 2
\* the user's operations on the inbox in a run of SpecArchive
MaxFsOpsArchive == 1
\* the same, for the run in which the services are started a second time
MaxUploadFailuresRestart == 1
\* file names the user drops into the inbox (sequences of characters)
Names == { <<"a">>, <<"b">> }
\* the names of the inbox entries in a run of SpecIgnore: a document, a
\* hidden file of the deny-list, a file of the deny-list that is not hidden,
\* an office lock file, a temporary file, and two directories: the archive
\* subfolder and one of an ordinary name
IgnoreDirs == { UPLOADED_FOLDER, <<"d">> }
IgnoreNames ==
    { <<"a", ".", "p", "d", "f">>,
      <<".", "D", "S", "_", "S", "t", "o", "r", "e">>,
      <<"T", "h", "u", "m", "b", "s", ".", "d", "b">>,
      <<"~", "$", "a">>, <<"a", ".", "t", "m", "p">> } \cup IgnoreDirs
\* every name an inbox entry has in some run
EntryNames == Names \cup IgnoreNames
\* the inbox directory, as its path components
INBOX == << <<"i", "n">> >>
\* file sizes: empty, small, above the ceiling
Sizes == {0, 1, MAX_FILE_SIZE + 1}
\* the service instances: the one started by setup, the one started by
\* the start_services_cmd command
Inst == {1, 2}

Min(a, b) == IF a < b THEN a ELSE b

RECURSIVE Pow2(_)
Pow2(n) == IF n = 0 THEN 1 ELSE 2 * Pow2(n - 1)

(***************************************************************************)
(* Paths and the ignore filter (watcher.rs)                                *)
(***************************************************************************)
\* a path is its parent's components and its file name
InboxPath(n) == [parent |-> INBOX, name |-> n]

\* path.file_name()
FileName(path) == path.name

\* config::uploaded_subfolder(inbox).join(file_name)
ArchivePath(n) == [parent |-> Append(INBOX, UPLOADED_FOLDER), name |-> n]

StartsWith(s, p) == Len(p) <= Len(s) /\ SubSeq(s, 1, Len(p)) = p
EndsWith(s, p) ==
    Len(p) <= Len(s) /\ SubSeq(s, Len(s) - Len(p) + 1, Len(s)) = p

\* path.components()
Components(path) ==
    {path.parent[k] : k \in 1..Len(path.parent)} \cup {path.name}

\* should_ignore, but for its last test (path.is_dir()), which reads the disk
IgnoredByName(path) ==
    \/ StartsWith(FileName(path), <<".">>)
    \/ FileName(path) \in IGNORED_EXACT
    \/ \E p \in IGNORED_PREFIXES : StartsWith(FileName(path), p)
    \/ \E s \in IGNORED_SUFFIXES : EndsWith(FileName(path), s)
    \/ UPLOADED_FOLDER \in Components(path)

(***************************************************************************)
(* The recent list (uploader.rs)                                           *)
(***************************************************************************)
NoError == <<>>

\* add_recent: push_front, then pop_back while over capacity
RECURSIVE Truncate(_)
Truncate(r) ==
    IF Len(r) > MAX_RECENT THEN Truncate(SubSeq(r, 1, Len(r) - 1)) ELSE r

\* add_recent without its loop: nothing is ever removed
add_recent_Unbounded(r, entry) == <<entry>> \o r

add_recent(r, entry) == Truncate(<<entry>> \o r)

\* recent.iter_mut().find(|r| r.name == name): the first match, or 0
FindRecent(r, name) ==
    IF \E k \in 1..Len(r) : r[k].name = name
    THEN CHOOSE k \in 1..Len(r) :
            /\ r[k].name = name
            /\ \A j \in 1..(k - 1) : r[j].name # name
    ELSE 0

update_recent_status_with_error(r, name, status, error) ==
    IF FindRecent(r, name) = 0 THEN r
    ELSE [r EXCEPT ![FindRecent(r, name)] =
              [name |-> name, status |-> status, error |-> error]]

update_recent_status(r, name, status) ==
    update_recent_status_with_error(r, name, status, NoError)

(***************************************************************************)
(* Errors (uploader.rs).  A raw error is a sequence of text fragments;     *)
(* str::contains is membership of a fragment.                              *)
(***************************************************************************)
Contains(err, frag) == \E k \in 1..Len(err) : err[k] = frag

ErrNotAuthenticated == <<"Not authenticated">>
ErrNoUserId == <<"No user ID found">>
ErrReadFile == <<"Failed to read file", "os error">>
ErrRequest == <<"Upload request failed", "connection">>
ErrHttp(code) == <<"Upload failed", code>>

\* the errors upload_file returns when the file was read
UploadErrors == {ErrRequest, ErrHttp("413")}

\* the mapping without the status code among its tests for a large file
humanize_error_No413(err) ==
    IF Contains(err, "too large") \/ Contains(err, "payload")
    THEN <<"El servidor rechazo el archivo por ser muy grande">>
    ELSE IF Contains(err, "401") \/ Contains(err, "403")
               \/ Contains(err, "Not authenticated")
    THEN <<"Sin autorizacion">>
    ELSE IF Contains(err, "timeout") \/ Contains(err, "timed out")
    THEN <<"Tiempo de espera agotado">>
    ELSE IF Contains(err, "connection") \/ Contains(err, "dns")
               \/ Contains(err, "resolve")
    THEN <<"Error de conexion">>
    ELSE IF Contains(err, "Failed to read file")
    THEN <<"No se pudo leer el archivo">>
    ELSE <<"Error: ">> \o err

humanize_error(err) ==
    IF Contains(err, "413") \/ Contains(err, "too large")
          \/ Contains(err, "payload")
    THEN <<"El servidor rechazo el archivo por ser muy grande">>
    ELSE IF Contains(err, "401") \/ Contains(err, "403")
               \/ Contains(err, "Not authenticated")
    THEN <<"Sin autorizacion">>
    ELSE IF Contains(err, "timeout") \/ Contains(err, "timed out")
    THEN <<"Tiempo de espera agotado">>
    ELSE IF Contains(err, "connection") \/ Contains(err, "dns")
               \/ Contains(err, "resolve")
    THEN <<"Error de conexion">>
    ELSE IF Contains(err, "Failed to read file")
    THEN <<"No se pudo leer el archivo">>
    ELSE <<"Error: ">> \o err

\* format!("Reintentando ({}/{}): {}", item.retries, MAX_RETRIES, user_error)
RetryMessage(retries, user_error) ==
    <<"Reintentando", ToString(retries), ToString(MAX_RETRIES)>> \o user_error

(***************************************************************************)
(* Files                                                                   *)
(***************************************************************************)
\* an inbox entry: a regular file, or a directory (dir)
NoFile == [exists |-> FALSE, size |-> 0, writing |-> FALSE, dir |-> FALSE]

\* path.is_file()
is_file(f) == f.exists /\ ~f.dir

\* the validation without its test for an empty file
ValidationError_NoEmptyTest(f) ==
    IF ~f.exists THEN <<"No se puede leer", "os error">>
    ELSE IF f.size > MAX_FILE_SIZE THEN <<"Archivo demasiado grande">>
    ELSE <<>>

\* the validation with a ceiling that a file's size must stay below
ValidationError_CeilingExcluded(f) ==
    IF ~f.exists THEN <<"No se puede leer", "os error">>
    ELSE IF f.size = 0 THEN <<"Archivo vacio">>
    ELSE IF f.size >= MAX_FILE_SIZE THEN <<"Archivo demasiado grande">>
    ELSE <<>>

\* the validation of start_worker: <<>> when the file may be uploaded
ValidationError(f) ==
    IF ~f.exists THEN <<"No se puede leer", "os error">>
    ELSE IF f.size = 0 THEN <<"Archivo vacio">>
    ELSE IF f.size > MAX_FILE_SIZE THEN <<"Archivo demasiado grande">>
    ELSE <<>>

\* the delay without its cap on the exponent
BackoffDelay_NoCap(retries) == RETRY_DELAY_BASE_SECS * Pow2(retries)

\* RETRY_DELAY_BASE_SECS * 2u64.pow(item.retries.min(6))
BackoffDelay(retries) ==
    RETRY_DELAY_BASE_SECS * Pow2(Min(retries, BACKOFF_EXP_CAP))

\* the comparison the wrong way round
RetryAllowed_Inverted(retries) == retries > MAX_RETRIES

\* the comparison that lets the count reach the budget
RetryAllowed_Inclusive(retries) == retries <= MAX_RETRIES

\* item.retries < MAX_RETRIES
RetryAllowed(retries) == retries < MAX_RETRIES

\* the cleanup that ignores the setting and always moves
DisposeKind_AlwaysMove(del) == "moved"

\* if delete_after_upload { remove_file } else { create_dir_all, rename }
DisposeKind(del) == IF del THEN "deleted" ELSE "moved"

(***************************************************************************)
(* State                                                                   *)
(***************************************************************************)
VARIABLES
    fs,                  \* the inbox: file name -> [exists, size, writing]
    archive,             \* the names of the files in the Subidos subfolder
    fsops,               \* user operations on the inbox still to come
    used,                \* the file names the user has used so far
    faults,              \* failures of the network or the server still to come
    delete_after_upload, \* AppConfig.delete_after_upload
    creds,               \* the keyring: is the token stored, is the user id
    mutex,               \* per Mutex of UploadManager: the thread that owns it
    ops,                 \* per thread: the lock steps left of its operation
    last_success_count,  \* the notification poller's last_success_count
    shown,               \* how many uploads the last poll's notification told
    unseen,              \* has a record become Success since the last poll
    services_running,    \* AppState.services_running
    svc,                 \* per instance: start_services' position
    scan_todo,           \* per instance: scanned paths not yet enqueued
    watcher,             \* per instance: the watcher thread's state
    dirty,               \* per instance: names with a debounced event due
    probe,               \* per instance: is_file_ready between its samples
    chan,                \* per instance: the mpsc channel of ready paths
    enq,                 \* per caller: the enqueue call holding the queue
    queue_lock,          \* the owner of UploadManager.queue's mutex
    queue,               \* UploadManager.queue
    recent,              \* UploadManager.recent, most recent first
    is_uploading,        \* UploadManager.is_uploading
    is_online,           \* UploadManager.is_online
    pc,                  \* per instance: the worker's position
    item,                \* per instance: the item the worker holds
    elapsed,             \* per instance: last_health_check.elapsed(), capped
    outcome              \* per instance: how the attempt in progress went

lockVars == <<mutex, ops>>
pollVars == <<last_success_count, shown, unseen>>
envVars ==
    <<fs, archive, fsops, used, faults, delete_after_upload, creds, lockVars,
      pollVars>>
svcVars == <<services_running, svc, scan_todo>>
watchVars == <<watcher, dirty, probe, chan>>
mgrVars == <<enq, queue_lock, queue, recent, is_uploading, is_online>>
workerVars == <<pc, item, elapsed, outcome>>
vars == <<envVars, svcVars, watchVars, mgrVars, workerVars>>

\* the threads that call enqueue: start_services' scan loop and the
\* watcher thread's receive loop, of each instance
Callers == Inst \X {"scan", "watch"}

QueueItem(path, retries) == [path |-> path, retries |-> retries]
RecentUpload(name, status, error) ==
    [name |-> name, status |-> status, error |-> error]

\* the push at the wrong end of the queue
push_back_AtFront(q, x) == <<x>> \o q

\* VecDeque::push_back
push_back(q, x) == Append(q, x)

\* queue.iter().any(|item| item.path == path)
InQueue(q, path) == \E k \in 1..Len(q) : q[k].path = path

\* how the attempt in progress went so far, and the text that goes with it:
\* the validation's reason or upload_file's error
Outcome(kind, text) == <<kind, text>>
NoOutcome == Outcome("none", <<>>)

\* the worker holds an item from its pop_front to the end of the attempt
Holding(w) == item[w] # <<>>
Held(w) == item[w][1]

\* the four mutexes of UploadManager, and the threads that lock them: the
\* scan loop, the watcher thread, the worker, and a status reader
Mutexes == {"queue", "recent", "is_uploading", "is_online"}
Threads == {"scan", "watch", "worker", "status"}

\* store_credentials has stored the token and the user id
StoredCredentials == [token |-> TRUE, user_id |-> TRUE]

\* the state after UploadManager::new, the inbox being empty; names are
\* the names its entries will have
InitFiles(names, n, m, del) ==
    /\ fs = [f \in names |-> NoFile]
    /\ archive = {}
    /\ fsops = n
    /\ used = {}
    /\ faults = m
    /\ delete_after_upload \in del
    /\ creds = StoredCredentials
    /\ mutex = [x \in Mutexes |-> <<>>]
    /\ ops = [t \in Threads |-> <<>>]
    /\ last_success_count = 0
    /\ shown = 0
    /\ unseen = FALSE
    /\ services_running = FALSE
    /\ svc = [i \in Inst |-> "off"]
    /\ scan_todo = [i \in Inst |-> {}]
    /\ watcher = [i \in Inst |-> "off"]
    /\ dirty = [i \in Inst |-> {}]
    /\ probe = [i \in Inst |-> <<>>]
    /\ chan = [i \in Inst |-> <<>>]
    /\ enq = [c \in Callers |-> <<>>]
    /\ queue_lock = <<>>
    /\ queue = <<>>
    /\ recent = <<>>
    /\ is_uploading = FALSE
    /\ is_online = TRUE
    /\ pc = [i \in Inst |-> "off"]
    /\ item = [i \in Inst |-> <<>>]
    /\ elapsed = [i \in Inst |-> HEALTH_CHECK_INTERVAL]
    /\ outcome = [i \in Inst |-> NoOutcome]

InitWith(n, m, del) == InitFiles(Names, n, m, del)

Init == InitWith(MaxFsOps, MaxUploadFailures, BOOLEAN)

(***************************************************************************)
(* The user's operations on the inbox.  Every one of them raises a         *)
(* filesystem event for the watchers that are subscribed.                  *)
(***************************************************************************)
Notify(n) == [i \in Inst |->
                 IF watcher[i] = "watching" THEN dirty[i] \cup {n}
                 ELSE dirty[i]]

\* The names are interchangeable: the first one the user uses is the
\* first of Names, and so on.
NameOrder == << <<"a">>, <<"b">> >>
NextName(n) ==
    \/ n \in used
    \/ \E k \in 1..Len(NameOrder) :
          /\ NameOrder[k] = n
          /\ \A j \in 1..(k - 1) : NameOrder[j] \in used

\* entry n of the inbox becomes f
FsPut(n, f) ==
    /\ fsops > 0
    /\ fsops' = fsops - 1
    /\ used' = used \cup {n}
    /\ fs' = [fs EXCEPT ![n] = f]
    /\ dirty' = Notify(n)
    /\ UNCHANGED <<archive, faults, delete_after_upload, creds, lockVars,
                   pollVars>>
    /\ UNCHANGED <<svcVars,
                   watcher, probe, chan, mgrVars, workerVars>>

FsChange(n, f) == NextName(n) /\ FsPut(n, f)

\* a copy or download into the inbox starts: the file appears, empty
FsCreate(n) ==
    /\ ~fs[n].exists
    /\ FsChange(n, [exists |-> TRUE, size |-> 0, writing |-> TRUE,
                    dir |-> FALSE])

\* a finished file is moved into the inbox, over the file of that name
\* if there is one
FsDrop(n) ==
    /\ \E s \in Sizes \ {0} :
          FsChange(n, [exists |-> TRUE, size |-> s, writing |-> FALSE,
                       dir |-> FALSE])

\* the writer appends
FsWrite(n) ==
    /\ fs[n].exists /\ fs[n].writing
    /\ \E s \in {t \in Sizes : t > fs[n].size} :
          FsChange(n, [fs[n] EXCEPT !.size = s])

\* the writer closes the file: its writing has finished
FsClose(n) ==
    /\ fs[n].exists /\ fs[n].writing
    /\ FsChange(n, [fs[n] EXCEPT !.writing = FALSE])

\* the user deletes the file
FsRemove(n) ==
    /\ fs[n].exists
    /\ FsChange(n, NoFile)

(***************************************************************************)
(* UploadManager::enqueue.  The queue's mutex is held from the duplicate   *)
(* test to the push_back; add_recent runs inside.                          *)
(***************************************************************************)
\* enqueue without the guard: the mutex is not taken
AcquireQueueLock_NotTaken(c) == <<>>

\* self.queue.lock().unwrap(), for a caller that keeps the guard
AcquireQueueLock(c) == <<c>>

\* the test and, for a new path, add_recent; the guard is dropped at once
\* when the path is already there
EnqueueBegin(c, path) ==
    /\ queue_lock = <<>>
    /\ enq[c] = <<>>
    /\ IF InQueue(queue, path)
       THEN UNCHANGED <<enq, queue_lock, recent>>
       ELSE /\ queue_lock' = AcquireQueueLock(c)
            /\ enq' = [enq EXCEPT ![c] = <<path>>]
            /\ recent' = add_recent(recent,
                             RecentUpload(FileName(path), "Pending", NoError))
    /\ UNCHANGED <<queue, is_uploading, is_online>>

\* queue.push_back(QueueItem { path, retries: 0 }), and the guard is dropped
EnqueueEnd(c) ==
    /\ enq[c] # <<>>
    /\ queue' = push_back(queue, QueueItem(enq[c][1], 0))
    /\ enq' = [enq EXCEPT ![c] = <<>>]
    /\ queue_lock' = IF queue_lock = <<c>> THEN <<>> ELSE queue_lock
    /\ UNCHANGED <<recent, is_uploading, is_online>>
    /\ UNCHANGED <<envVars, svcVars, watchVars, workerVars>>

(***************************************************************************)
(* start_services (lib.rs) and start_services_cmd (commands.rs)            *)
(***************************************************************************)
\* what the disk holds at path: an entry of the inbox, a file the worker
\* has moved into the archive subfolder, or nothing
FileAt(path) ==
    IF path.parent = INBOX /\ FileName(path) \in DOMAIN fs
    THEN fs[FileName(path)]
    ELSE IF path.parent = Append(INBOX, UPLOADED_FOLDER)
            /\ FileName(path) \in archive
         THEN [exists |-> TRUE, size |-> 1, writing |-> FALSE, dir |-> FALSE]
         ELSE NoFile

\* the filter without its test of the suffixes
should_ignore_NoSuffix(path) ==
    \/ StartsWith(FileName(path), <<".">>)
    \/ FileName(path) \in IGNORED_EXACT
    \/ \E p \in IGNORED_PREFIXES : StartsWith(FileName(path), p)
    \/ UPLOADED_FOLDER \in Components(path)
    \/ fs[FileName(path)].dir

\* should_ignore(&path): the tests of the name and of the components, and
\* path.is_dir()
should_ignore(path) == IgnoredByName(path) \/ FileAt(path).dir

\* scan_existing_files
scan_existing_files ==
    {InboxPath(n) : n \in {m \in DOMAIN fs :
        ~should_ignore(InboxPath(m)) /\ is_file(fs[m])}}

\* start_services up to its scan; ensure_inbox_folder may fail
StartServices(i) ==
    /\ svc[i] = "off"
    /\ \/ /\ svc' = [svc EXCEPT ![i] = "scan"]
          /\ scan_todo' = [scan_todo EXCEPT ![i] = scan_existing_files]
       \/ /\ svc' = [svc EXCEPT ![i] = "failed"]
          /\ UNCHANGED scan_todo

\* the setup hook's task, for a user whose stored credentials are valid
SetupStart ==
    /\ creds = StoredCredentials
    /\ StartServices(1)
    /\ UNCHANGED <<services_running, envVars, watchVars, mgrVars, workerVars>>

\* start_services_cmd: the swap guards this entry only
StartServicesCmd ==
    /\ ~services_running
    /\ services_running' = TRUE
    /\ StartServices(2)
    /\ UNCHANGED <<envVars, watchVars, mgrVars, workerVars>>

\* for file in existing { upload_manager.enqueue(file) }
ScanEnqueue(i) ==
    /\ svc[i] = "scan"
    /\ \E p \in scan_todo[i] :
          /\ EnqueueBegin(<<i, "scan">>, p)
          /\ scan_todo' = [scan_todo EXCEPT ![i] = @ \ {p}]
    /\ UNCHANGED <<services_running, svc, envVars, watchVars, workerVars>>

\* the watcher thread and the worker task are spawned
SpawnThreads(i) ==
    /\ svc[i] = "scan"
    /\ scan_todo[i] = {}
    /\ enq[<<i, "scan">>] = <<>>
    /\ svc' = [svc EXCEPT ![i] = "running"]
    /\ watcher' = [watcher EXCEPT ![i] = "starting"]
    /\ pc' = [pc EXCEPT ![i] = "top"]
    /\ UNCHANGED <<services_running, scan_todo, envVars, dirty, probe, chan,
                   mgrVars, item, elapsed, outcome>>

(***************************************************************************)
(* The watcher (watcher.rs) and the thread that receives from it (lib.rs)  *)
(***************************************************************************)
\* a start that is tried again after it failed
WatchStart_Retried(i) ==
    /\ watcher[i] \in {"starting", "failed"}
    /\ \E w \in {"watching", "failed"} :
          watcher' = [watcher EXCEPT ![i] = w]
    /\ UNCHANGED <<dirty, probe, chan, envVars, svcVars, mgrVars, workerVars>>

\* start_watching returns Ok or Err; on Err the thread logs and ends
WatchStart(i) ==
    /\ watcher[i] = "starting"
    /\ \E w \in {"watching", "failed"} :
          watcher' = [watcher EXCEPT ![i] = w]
    /\ UNCHANGED <<dirty, probe, chan, envVars, svcVars, mgrVars, workerVars>>

\* the debouncer's callback for one event, up to is_file_ready's first sample
WatcherEvent(i, n) ==
    /\ watcher[i] = "watching"
    /\ n \in dirty[i]
    /\ probe[i] = <<>>
    /\ dirty' = [dirty EXCEPT ![i] = @ \ {n}]
    /\ IF /\ ~should_ignore(InboxPath(n))
          /\ is_file(fs[n])
          /\ InboxPath(n).parent = INBOX
       THEN probe' = [probe EXCEPT ![i] =
                         <<[name |-> n, first_size |-> fs[n].size,
                            path |-> InboxPath(n)]>>]
       ELSE UNCHANGED probe
    /\ UNCHANGED <<watcher, chan, envVars, svcVars, mgrVars, workerVars>>

\* the probe without its test for an empty file
is_file_ready_NoZeroTest(first_size, f) ==
    f.exists /\ first_size = f.size

\* first_size == second_size && first_size > 0
is_file_ready(first_size, f) ==
    f.exists /\ first_size = f.size /\ first_size > 0

\* is_file_ready's second sample, 500 ms later, and the send
ProbeSecond(i) ==
    /\ probe[i] # <<>>
    /\ probe' = [probe EXCEPT ![i] = <<>>]
    /\ IF is_file_ready(probe[i][1].first_size, FileAt(probe[i][1].path))
       THEN chan' = [chan EXCEPT ![i] = Append(@, probe[i][1].path)]
       ELSE UNCHANGED chan
    /\ UNCHANGED <<watcher, dirty, envVars, svcVars, mgrVars, workerVars>>

\* while let Ok(path) = rx.recv() { upload_manager_watcher.enqueue(path) }
WatchRecv(i) ==
    /\ chan[i] # <<>>
    /\ EnqueueBegin(<<i, "watch">>, Head(chan[i]))
    /\ chan' = [chan EXCEPT ![i] = Tail(@)]
    /\ UNCHANGED <<watcher, dirty, probe, envVars, svcVars, workerVars>>

(***************************************************************************)
(* UploadManager::start_worker: one action per step of the loop between    *)
(* two accesses to shared state or two waits                               *)
(***************************************************************************)
Goto(w, l) == pc' = [pc EXCEPT ![w] = l]

\* last_health_check.elapsed() is kept in steps of the offline sleep,
\* rounded down, and capped at HEALTH_CHECK_INTERVAL, the one value it is
\* compared with
Ticks == {0, OFFLINE_SLEEP_SECS, HEALTH_CHECK_INTERVAL}
Floor(t) == CHOOSE x \in Ticks : x <= t /\ \A y \in Ticks : y <= t => y <= x

\* elapsed() after a wait of d seconds: a sleep or a request lasts d seconds
\* or longer
After(e, d) == {x \in Ticks : x >= Floor(Min(e + d, HEALTH_CHECK_INTERVAL))}

\* last_health_check.elapsed() >= HEALTH_CHECK_INTERVAL
HealthCheckDue(w) == elapsed[w] >= HEALTH_CHECK_INTERVAL

\* check_server, set_online, and the offline branch
HealthCheck(w) ==
    /\ pc[w] = "top"
    /\ HealthCheckDue(w)
    /\ \E online \in BOOLEAN :
          /\ is_online' = online
          /\ Goto(w, IF online THEN "dequeue" ELSE "offline_sleep")
    /\ elapsed' = [elapsed EXCEPT ![w] = 0]
    /\ UNCHANGED <<enq, queue_lock, queue, recent, is_uploading>>
    /\ UNCHANGED <<item, outcome, envVars, svcVars, watchVars>>

\* sleep(Duration::from_secs(15)); continue
OfflineSleep(w) ==
    /\ pc[w] = "offline_sleep"
    /\ \E t \in After(elapsed[w], OFFLINE_SLEEP_SECS) :
          elapsed' = [elapsed EXCEPT ![w] = t]
    /\ Goto(w, "top")
    /\ UNCHANGED <<item, outcome, envVars, svcVars, watchVars, mgrVars>>

\* the pop_front that is not reached after a probe
AtDequeue_NotAfterProbe(w) == pc[w] = "top" /\ ~HealthCheckDue(w)

\* the worker is at the pop_front: after a probe that said online, or at
\* the top of the loop with no probe due
AtDequeue(w) == pc[w] = "dequeue" \/ (pc[w] = "top" /\ ~HealthCheckDue(w))

\* queue.pop_front() under the queue's mutex
Dequeue(w) ==
    /\ AtDequeue(w)
    /\ queue_lock = <<>>
    /\ IF queue = <<>>
       THEN /\ Goto(w, "empty_sleep")
            /\ UNCHANGED <<queue, item>>
       ELSE /\ item' = [item EXCEPT ![w] = <<Head(queue)>>]
            /\ queue' = Tail(queue)
            /\ Goto(w, "set_flag")
    /\ UNCHANGED <<enq, queue_lock, recent, is_uploading, is_online>>
    /\ UNCHANGED <<elapsed, outcome, envVars, svcVars, watchVars>>

\* sleep(Duration::from_secs(2))
EmptySleep(w) ==
    /\ pc[w] = "empty_sleep"
    /\ \E t \in After(elapsed[w], EMPTY_SLEEP_SECS) :
          elapsed' = [elapsed EXCEPT ![w] = t]
    /\ Goto(w, "top")
    /\ UNCHANGED <<item, outcome, envVars, svcVars, watchVars, mgrVars>>

\* *self.is_uploading.lock().unwrap() = true
SetInFlight(w) ==
    /\ pc[w] = "set_flag"
    /\ is_uploading' = TRUE
    /\ Goto(w, "mark_uploading")
    /\ UNCHANGED <<enq, queue_lock, queue, recent, is_online>>
    /\ UNCHANGED <<item, elapsed, outcome, envVars, svcVars, watchVars>>

\* a step of the worker that only updates the recent list
MarkStep(w, from, to, status, error) ==
    /\ pc[w] = from
    /\ recent' = update_recent_status_with_error(
                     recent, FileName(Held(w).path), status, error)
    /\ Goto(w, to)
    /\ UNCHANGED <<enq, queue_lock, queue, is_uploading, is_online>>
    /\ UNCHANGED <<elapsed, envVars, svcVars, watchVars>>

\* self.update_recent_status(&file_name, UploadStatus::Uploading)
MarkUploading(w) ==
    /\ MarkStep(w, "mark_uploading", "validate", "Uploading", NoError)
    /\ UNCHANGED <<item, outcome>>

\* std::fs::metadata(&item.path) and the size tests
Validate(w) ==
    /\ pc[w] = "validate"
    /\ IF ValidationError(fs[FileName(Held(w).path)]) # <<>>
       THEN /\ Goto(w, "val_mark")
            /\ outcome' = [outcome EXCEPT ![w] = Outcome("invalid",
                              ValidationError(fs[FileName(Held(w).path)]))]
       ELSE /\ Goto(w, "upload")
            /\ UNCHANGED outcome
    /\ UNCHANGED <<item, elapsed, envVars, svcVars, watchVars, mgrVars>>

\* the record is set to Failed with the reason
ValMark(w) ==
    /\ MarkStep(w, "val_mark", "val_clear", "Failed", outcome[w][2])
    /\ UNCHANGED <<item, outcome>>

\* the end of an attempt that leaves the flag as it is
ClearStep_FlagKept(w, from, to) ==
    /\ pc[w] = from
    /\ Goto(w, to)
    /\ UNCHANGED <<enq, queue_lock, queue, recent, is_uploading, is_online>>
    /\ UNCHANGED <<envVars, svcVars, watchVars>>

\* a step of the worker that ends the attempt: the flag is cleared
ClearStep(w, from, to) ==
    /\ pc[w] = from
    /\ is_uploading' = FALSE
    /\ Goto(w, to)
    /\ UNCHANGED <<enq, queue_lock, queue, recent, is_online>>
    /\ UNCHANGED <<envVars, svcVars, watchVars>>

\* *self.is_uploading.lock().unwrap() = false; continue
ValClear(w) ==
    /\ ClearStep(w, "val_clear", "top")
    /\ item' = [item EXCEPT ![w] = <<>>]
    /\ outcome' = [outcome EXCEPT ![w] = NoOutcome]
    /\ UNCHANGED elapsed

\* the results of upload_file: <<>> for Ok, or the error.  The token and
\* the user id are read first; a file that is gone cannot be read; what the
\* network and the server answer is theirs to choose.
UploadResults(f) ==
    IF ~creds.token THEN {ErrNotAuthenticated}
    ELSE IF ~creds.user_id THEN {ErrNoUserId}
    ELSE IF ~f.exists THEN {ErrReadFile}
    ELSE IF faults > 0 THEN {<<>>} \cup UploadErrors
    ELSE {<<>>}

\* upload_file(&item.path, &server_url).await; the error of a failed
\* upload is kept in outcome until the record is written
Upload(w) ==
    /\ pc[w] = "upload"
    /\ \E r \in UploadResults(fs[FileName(Held(w).path)]) :
          /\ faults' = IF r \in UploadErrors THEN faults - 1 ELSE faults
          /\ IF r = <<>>
             THEN /\ Goto(w, "succ_mark")
                  /\ outcome' = [outcome EXCEPT ![w] =
                                    Outcome("uploaded", <<>>)]
                  /\ \E t \in After(elapsed[w], 0) :
                        elapsed' = [elapsed EXCEPT ![w] = t]
             ELSE /\ Goto(w, "fail_clear")
                  /\ outcome' = [outcome EXCEPT ![w] = Outcome("failed", r)]
                  /\ UNCHANGED elapsed
    /\ UNCHANGED <<fs, archive, fsops, used, delete_after_upload, creds>>
    /\ UNCHANGED <<lockVars, pollVars>>
    /\ UNCHANGED <<item, svcVars, watchVars, mgrVars>>

\* self.update_recent_status(&file_name, UploadStatus::Success)
SuccMark(w) ==
    /\ MarkStep(w, "succ_mark", "dispose", "Success", NoError)
    /\ UNCHANGED <<item, outcome>>

\* create_dir_all(&dest_dir): the inbox f with the archive subfolder in it,
\* in the runs that follow the subfolder as an entry of the inbox
WithSubfolder(f) ==
    IF UPLOADED_FOLDER \in DOMAIN f
    THEN [f EXCEPT ![UPLOADED_FOLDER] =
             [exists |-> TRUE, size |-> 0, writing |-> FALSE, dir |-> TRUE]]
    ELSE f

\* the post-upload cleanup: remove_file, or create_dir_all and rename.
\* Either fails when the file is gone, and may fail when it is there.
Dispose(w) ==
    /\ pc[w] = "dispose"
    /\ Goto(w, "succ_clear")
    /\ \E ok \in {fs[FileName(Held(w).path)].exists, FALSE} :
          IF ok
          THEN /\ fs' = IF DisposeKind(delete_after_upload) = "deleted"
                        THEN [fs EXCEPT ![FileName(Held(w).path)] = NoFile]
                        ELSE WithSubfolder(
                                [fs EXCEPT ![FileName(Held(w).path)] = NoFile])
               /\ archive' = IF DisposeKind(delete_after_upload) = "deleted"
                             THEN archive
                             ELSE archive \cup {FileName(Held(w).path)}
               /\ outcome' = [outcome EXCEPT ![w] =
                     Outcome(DisposeKind(delete_after_upload), <<>>)]
          ELSE /\ fs' \in IF DisposeKind(delete_after_upload) = "deleted"
                          THEN {fs}
                          ELSE {fs, WithSubfolder(fs)}
               /\ archive' = archive
               /\ outcome' = [outcome EXCEPT ![w] = Outcome("kept", <<>>)]
    /\ UNCHANGED <<fsops, used, faults, delete_after_upload, creds, lockVars,
                   pollVars>>
    /\ UNCHANGED <<item, elapsed>>
    /\ UNCHANGED <<svcVars, watchVars, mgrVars>>

\* *self.is_uploading.lock().unwrap() = false, after a success
SuccClear(w) ==
    /\ ClearStep(w, "succ_clear", "top")
    /\ item' = [item EXCEPT ![w] = <<>>]
    /\ outcome' = [outcome EXCEPT ![w] = NoOutcome]
    /\ UNCHANGED elapsed

\* the failure branch without the forced probe
FailClear_NoForce(w) ==
    /\ ClearStep(w, "fail_clear",
                 IF RetryAllowed(Held(w).retries + 1) THEN "retry_mark"
                 ELSE "giveup_mark")
    /\ item' = [item EXCEPT ![w] =
                   <<QueueItem(Held(w).path, Held(w).retries + 1)>>]
    /\ UNCHANGED <<elapsed, outcome>>

\* after a failure: the next iteration is made to probe, the retry count
\* is incremented and the flag is cleared
FailClear(w) ==
    /\ ClearStep(w, "fail_clear",
                 IF RetryAllowed(Held(w).retries + 1) THEN "retry_mark"
                 ELSE "giveup_mark")
    /\ item' = [item EXCEPT ![w] =
                   <<QueueItem(Held(w).path, Held(w).retries + 1)>>]
    /\ elapsed' = [elapsed EXCEPT ![w] = HEALTH_CHECK_INTERVAL]
    /\ UNCHANGED outcome

\* the record goes back to Pending with the retry message
RetryMark(w) ==
    /\ MarkStep(w, "retry_mark", "retry_push", "Pending",
                RetryMessage(Held(w).retries, humanize_error(outcome[w][2])))
    /\ UNCHANGED <<item, outcome>>

\* self.queue.lock().unwrap().push_back(item.clone())
RetryPush(w) ==
    /\ pc[w] = "retry_push"
    /\ queue_lock = <<>>
    /\ queue' = push_back(queue, Held(w))
    /\ Goto(w, "backoff")
    /\ UNCHANGED <<enq, queue_lock, recent, is_uploading, is_online>>
    /\ UNCHANGED <<item, elapsed, outcome, envVars, svcVars, watchVars>>

\* sleep(Duration::from_secs(delay))
BackoffSleep(w) ==
    /\ pc[w] = "backoff"
    /\ \E t \in After(elapsed[w], BackoffDelay(Held(w).retries)) :
          elapsed' = [elapsed EXCEPT ![w] = t]
    /\ item' = [item EXCEPT ![w] = <<>>]
    /\ outcome' = [outcome EXCEPT ![w] = NoOutcome]
    /\ Goto(w, "top")
    /\ UNCHANGED <<envVars, svcVars, watchVars, mgrVars>>

\* the budget is spent: the record is set to Failed, the item is dropped
GiveUpMark(w) ==
    /\ MarkStep(w, "giveup_mark", "top", "Failed",
                humanize_error(outcome[w][2]))
    /\ item' = [item EXCEPT ![w] = <<>>]
    /\ outcome' = [outcome EXCEPT ![w] = NoOutcome]

\* the steps of the loop but the last one of an item whose budget is spent
Attempt(w) ==
    \/ HealthCheck(w) \/ OfflineSleep(w) \/ Dequeue(w) \/ EmptySleep(w)
    \/ SetInFlight(w) \/ MarkUploading(w) \/ Validate(w) \/ ValMark(w)
    \/ ValClear(w) \/ Upload(w) \/ SuccMark(w) \/ Dispose(w)
    \/ SuccClear(w) \/ FailClear(w) \/ RetryMark(w) \/ RetryPush(w)
    \/ BackoffSleep(w)

Worker(w) == Attempt(w) \/ GiveUpMark(w)

User ==
    \E n \in Names :
       FsCreate(n) \/ FsDrop(n) \/ FsWrite(n) \/ FsClose(n) \/ FsRemove(n)

\* what start_services sets going, but the worker
Pipeline(i) ==
    \/ ScanEnqueue(i) \/ SpawnThreads(i) \/ EnqueueEnd(<<i, "scan">>)
    \/ WatchStart(i) \/ (\E n \in EntryNames : WatcherEvent(i, n))
    \/ ProbeSecond(i) \/ WatchRecv(i) \/ EnqueueEnd(<<i, "watch">>)

(***************************************************************************)
(* Spec: the services are started once, by the setup hook.                 *)
(***************************************************************************)
Next == User \/ SetupStart \/ Pipeline(1) \/ Worker(1)

Spec == Init /\ [][Next]_vars

(***************************************************************************)
(* SpecRestart: start_services_cmd starts the services too, on the same    *)
(* UploadManager.  In its runs the user only moves finished files into    *)
(* the inbox, and fewer uploads fail than MAX_RETRIES, so that no item's   *)
(* budget is ever spent.                                                   *)
(***************************************************************************)
\* AppConfig::default() has delete_after_upload: true
InitRestart == InitWith(MaxFsOpsRestart, MaxUploadFailuresRestart, {TRUE})

NextRestart ==
    \/ (\E n \in Names : FsDrop(n)) \/ SetupStart \/ StartServicesCmd
    \/ \E i \in Inst : Pipeline(i) \/ Attempt(i)

SpecRestart == InitRestart /\ [][NextRestart]_vars

(***************************************************************************)
(* SpecLive: the run of Spec in which the user only moves finished files   *)
(* into the inbox, with the scheduling the runtime gives: a thread or task *)
(* that can take a step takes one.  The scan loop and the enqueue calls    *)
(* run to their end, the worker is spawned and its loop keeps running.     *)
(* What the probes and the uploads answer is left open.                    *)
(***************************************************************************)
InitLive == InitWith(MaxFsOpsLive, MaxUploadFailuresLive, {TRUE})

NextLive ==
    \/ (\E n \in Names : FsDrop(n)) \/ SetupStart \/ Pipeline(1) \/ Worker(1)

Fairness ==
    /\ WF_vars(ScanEnqueue(1)) /\ WF_vars(SpawnThreads(1))
    /\ \A c \in Callers : WF_vars(EnqueueEnd(c))
    /\ WF_vars(Worker(1))

SpecLive == InitLive /\ [][NextLive]_vars /\ Fairness

(***************************************************************************)
(* SpecLocks: the mutexes of UploadManager alone.  Every operation is the  *)
(* sequence of its lock and unlock steps; a thread holds what it has       *)
(* locked until it unlocks it, and waits at a lock that another thread     *)
(* holds.  Between two operations the worker sleeps, probes or uploads.    *)
(***************************************************************************)
Lock(m) == <<"lock", m>>
Unlock(m) == <<"unlock", m>>

\* an operation that takes one mutex for its duration
Single(m) == <<Lock(m), Unlock(m)>>

\* enqueue: the queue's guard lives to the end of the function; add_recent
\* locks the recent list inside; a duplicate returns at once
EnqueueScripts ==
    { <<Lock("queue"), Lock("recent"), Unlock("recent"), Unlock("queue")>>,
      Single("queue") }

\* a retry with the push made while the recent list is still locked
RetryScript_Nested ==
    <<Lock("recent"), Lock("queue"), Unlock("queue"), Unlock("recent")>>

\* the retry branch: update_recent_status_with_error, then push_back
RetryScript == Single("recent") \o Single("queue")

\* the worker's accesses: set_online, pop_front, the in-flight flag,
\* update_recent_status, and the retry branch
WorkerScripts ==
    { Single("is_online"), Single("queue"), Single("is_uploading"),
      Single("recent"), RetryScript }

\* is_online, is_uploading, queue_size and get_recent, as get_status, the
\* tray and the notification task call them
StatusScripts ==
    { Single("is_online"), Single("is_uploading"), Single("queue"),
      Single("recent") }

ScriptsOf(t) ==
    IF t \in {"scan", "watch"} THEN EnqueueScripts
    ELSE IF t = "worker" THEN WorkerScripts
    ELSE StatusScripts

lockFrame ==
    <<fs, archive, fsops, used, faults, delete_after_upload, creds, pollVars,
      svcVars, watchVars, mgrVars, workerVars>>

\* thread t starts an operation
Call(t) ==
    /\ ops[t] = <<>>
    /\ \E sc \in ScriptsOf(t) : ops' = [ops EXCEPT ![t] = sc]
    /\ UNCHANGED <<mutex, lockFrame>>

\* Mutex::lock: the thread waits until no thread holds the mutex
LockStep(t) ==
    /\ ops[t] # <<>>
    /\ Head(ops[t])[1] = "lock"
    /\ mutex[Head(ops[t])[2]] = <<>>
    /\ mutex' = [mutex EXCEPT ![Head(ops[t])[2]] = <<t>>]
    /\ ops' = [ops EXCEPT ![t] = Tail(@)]
    /\ UNCHANGED lockFrame

\* the guard is dropped
UnlockStep(t) ==
    /\ ops[t] # <<>>
    /\ Head(ops[t])[1] = "unlock"
    /\ mutex' = [mutex EXCEPT ![Head(ops[t])[2]] = <<>>]
    /\ ops' = [ops EXCEPT ![t] = Tail(@)]
    /\ UNCHANGED lockFrame

InitLocks == InitWith(0, 0, {TRUE})

NextLocks == \E t \in Threads : Call(t) \/ LockStep(t) \/ UnlockStep(t)

SpecLocks == InitLocks /\ [][NextLocks]_vars

(***************************************************************************)
(* SpecIgnore: the inbox receives entries of the names of IgnoreNames,     *)
(* most of which the filter rejects, before and after the services start. *)
(* The worker is left out: the runs end with the paths in the queue.       *)
(***************************************************************************)
InitIgnore == InitFiles(IgnoreNames, MaxFsOpsIgnore, 0, {TRUE})

\* a finished file of name n is moved into the inbox
FsDropIn(n) ==
    /\ ~fs[n].exists
    /\ FsPut(n, [exists |-> TRUE, size |-> 1, writing |-> FALSE,
                 dir |-> FALSE])

\* a directory of name n is created in the inbox
FsMkdir(n) ==
    /\ ~fs[n].exists
    /\ FsPut(n, [exists |-> TRUE, size |-> 0, writing |-> FALSE,
                 dir |-> TRUE])

NextIgnore ==
    \/ (\E n \in IgnoreNames \ IgnoreDirs : FsDropIn(n))
    \/ (\E n \in IgnoreDirs : FsMkdir(n))
    \/ SetupStart \/ Pipeline(1)

SpecIgnore == InitIgnore /\ [][NextIgnore]_vars

(***************************************************************************)
(* SpecArchive: the worker moves what it has uploaded into the archive     *)
(* subfolder, which is an entry of the inbox; the services are started by  *)
(* the setup hook and by start_services_cmd, so that a scan runs after a   *)
(* move; and the watchers' callbacks are run for the paths a move touches: *)
(* the file's path in the inbox, the subfolder, the file's path in the     *)
(* subfolder.  No upload fails.                                            *)
(***************************************************************************)
\* the paths of the events: a rename raises them for its source and its
\* target, create_dir_all for the subfolder; whether a watch that is not
\* recursive reports the target depends on the platform
EventPaths ==
    {InboxPath(n) : n \in Names \cup {UPLOADED_FOLDER}}
    \cup {ArchivePath(n) : n \in Names}

\* a move has touched path p: it is the source or the target of a rename
\* that has taken place, the source not being in use again, or it is the
\* subfolder that holds the target
Moved(p) ==
    \/ FileName(p) \in archive /\ ~FileAt(InboxPath(FileName(p))).exists
    \/ p = InboxPath(UPLOADED_FOLDER) /\ archive # {}

\* a callback that publishes every regular file an event names
WatcherEventPath_Unfiltered(i, p) ==
    /\ watcher[i] = "watching"
    /\ probe[i] = <<>>
    /\ Moved(p)
    /\ IF is_file(FileAt(p))
       THEN probe' = [probe EXCEPT ![i] =
                         <<[name |-> FileName(p),
                            first_size |-> FileAt(p).size, path |-> p]>>]
       ELSE UNCHANGED probe
    /\ UNCHANGED <<watcher, dirty, chan, envVars, svcVars, mgrVars,
                   workerVars>>

\* the debouncer's callback for an event a move has raised for path p, up
\* to is_file_ready's first sample
WatcherEventPath(i, p) ==
    /\ watcher[i] = "watching"
    /\ probe[i] = <<>>
    /\ Moved(p)
    /\ IF /\ ~should_ignore(p)
          /\ is_file(FileAt(p))
          /\ p.parent = INBOX
       THEN probe' = [probe EXCEPT ![i] =
                         <<[name |-> FileName(p),
                            first_size |-> FileAt(p).size, path |-> p]>>]
       ELSE UNCHANGED probe
    /\ UNCHANGED <<watcher, dirty, chan, envVars, svcVars, mgrVars,
                   workerVars>>

\* delete_after_upload is false: the worker archives
InitArchive ==
    InitFiles(Names \cup {UPLOADED_FOLDER}, MaxFsOpsArchive, 0, {FALSE})

NextArchive ==
    \/ (\E n \in Names : FsDrop(n)) \/ SetupStart \/ StartServicesCmd
    \/ \E i \in Inst :
          \/ Pipeline(i) \/ Attempt(i)
          \/ \E p \in EventPaths : WatcherEventPath(i, p)

SpecArchive == InitArchive /\ [][NextArchive]_vars

(***************************************************************************)
(* SpecAuth: the user logs out and in again while the services run; the    *)
(* worker is not stopped by a logout.  The network and the server do not   *)
(* fail in its runs.                                                       *)
(***************************************************************************)
\* auth::logout: the keyring entries are deleted
Logout ==
    /\ creds.token
    /\ creds' = [token |-> FALSE, user_id |-> FALSE]
    /\ UNCHANGED <<fs, archive, fsops, used, faults, delete_after_upload>>
    /\ UNCHANGED <<lockVars, pollVars>>
    /\ UNCHANGED <<svcVars, watchVars, mgrVars, workerVars>>

\* auth::login, store_credentials: the token is stored first
LoginStoreToken ==
    /\ ~creds.token
    /\ creds' = [creds EXCEPT !.token = TRUE]
    /\ UNCHANGED <<fs, archive, fsops, used, faults, delete_after_upload>>
    /\ UNCHANGED <<lockVars, pollVars>>
    /\ UNCHANGED <<svcVars, watchVars, mgrVars, workerVars>>

\* store_credentials: the user id is stored next
LoginStoreUserId ==
    /\ creds.token /\ ~creds.user_id
    /\ creds' = [creds EXCEPT !.user_id = TRUE]
    /\ UNCHANGED <<fs, archive, fsops, used, faults, delete_after_upload>>
    /\ UNCHANGED <<lockVars, pollVars>>
    /\ UNCHANGED <<svcVars, watchVars, mgrVars, workerVars>>

InitAuth == InitWith(MaxFsOpsAuth, 0, {TRUE})

NextAuth ==
    \/ (\E n \in Names : FsDrop(n)) \/ SetupStart \/ Pipeline(1) \/ Worker(1)
    \/ Logout \/ LoginStoreToken \/ LoginStoreUserId

SpecAuth == InitAuth /\ [][NextAuth]_vars

(***************************************************************************)
(* SpecRecent: the recent list alone, under its two operations: add_recent *)
(* as enqueue calls it, for one file of the same name per call, and the    *)
(* worker's status update of the most recent record of that name.          *)
(***************************************************************************)
InitRecent == InitWith(MaxRecentAdds, 0, {TRUE})

\* all the variables but fsops, recent and the poller's
recentFrame ==
    <<fs, archive, used, faults, delete_after_upload, creds, lockVars, svcVars,
      watchVars, enq, queue_lock, queue, is_uploading, is_online, workerVars>>

\* self.add_recent(RecentUpload { name, status: Pending, error: None })
RecentAdd(n) ==
    /\ fsops > 0
    /\ fsops' = fsops - 1
    /\ recent' = add_recent(recent, RecentUpload(n, "Pending", NoError))
    /\ UNCHANGED <<recentFrame, pollVars>>

\* self.update_recent_status(&file_name, UploadStatus::Success)
RecentUpdate(n) ==
    /\ FindRecent(recent, n) # 0
    /\ recent[FindRecent(recent, n)].status = "Pending"
    /\ recent' = update_recent_status(recent, n, "Success")
    /\ UNCHANGED <<fsops, recentFrame, pollVars>>

NextRecent == RecentAdd(NameOrder[1]) \/ RecentUpdate(NameOrder[1])

SpecRecent == InitRecent /\ [][NextRecent]_vars

(***************************************************************************)
(* SpecValidate: the run of Spec in which the files that arrive in the     *)
(* inbox are empty, small, of the size of the ceiling or one byte above    *)
(* it, and the user may remove them again.  No item's budget of retries is *)
(* ever spent.                                                             *)
(***************************************************************************)
ValidateSizes == {0, 1, MAX_FILE_SIZE, MAX_FILE_SIZE + 1}

InitValidate == InitWith(MaxFsOpsValidate, 0, {TRUE})

\* a finished file of size s is moved into the inbox
FsDropOfSize(n, s) ==
    /\ ~fs[n].exists
    /\ FsChange(n, [exists |-> TRUE, size |-> s, writing |-> FALSE,
                    dir |-> FALSE])

NextValidate ==
    \/ (\E n \in Names : \E s \in ValidateSizes : FsDropOfSize(n, s))
    \/ (\E n \in Names : FsRemove(n))
    \/ SetupStart \/ Pipeline(1) \/ Attempt(1)

SpecValidate == InitValidate /\ [][NextValidate]_vars

(***************************************************************************)
(* SpecNotify: the recent list under add_recent and the worker's update to *)
(* Success, as in SpecRecent, and the notification poller of               *)
(* start_services, which wakes every two seconds, whenever that falls.     *)
(* The permission to notify is granted, and at most two uploads are        *)
(* pending at a time.                                                      *)
(***************************************************************************)
InitNotify == InitWith(MaxNotifyAdds, 0, {TRUE})

\* recent.iter().filter(|r| r.status == UploadStatus::Success).count()
SuccessCount(r) == Cardinality({k \in 1..Len(r) : r[k].status = "Success"})

\* self.update_recent_status(&file_name, UploadStatus::Success)
RecentSuccess(n) ==
    /\ FindRecent(recent, n) # 0
    /\ recent[FindRecent(recent, n)].status = "Pending"
    /\ recent' = update_recent_status(recent, n, "Success")
    /\ unseen' = TRUE
    /\ UNCHANGED <<fsops, recentFrame, last_success_count, shown>>

\* one turn of the poller's loop, after its sleep
Poll ==
    /\ shown' = IF SuccessCount(recent) > last_success_count
                THEN SuccessCount(recent) - last_success_count
                ELSE 0
    /\ last_success_count' = SuccessCount(recent)
    /\ unseen' = FALSE
    /\ UNCHANGED <<fsops, recent, recentFrame>>

\* enqueue's add_recent for a file that arrives when the uploads of all
\* but one of the files before it have ended
FileArrives(n) ==
    /\ Cardinality({k \in 1..Len(recent) : recent[k].status = "Pending"}) <= 1
    /\ RecentAdd(n)

NextNotify == FileArrives(NameOrder[1]) \/ RecentSuccess(NameOrder[1]) \/ Poll

SpecNotify == InitNotify /\ [][NextNotify]_vars

(***************************************************************************)
(* The claims                                                              *)
(***************************************************************************)
AllPaths == {InboxPath(n) : n \in Names}

\* the worker has dequeued an item and its attempt has not yet ended by
\* success, validation failure or upload failure
InFlight(w) ==
    pc[w] \in {"set_flag", "mark_uploading", "validate", "upload"}

HeldName(w) == FileName(Held(w).path)

\* the status of the record a status update for name n would change
StatusOf(r, n) ==
    IF FindRecent(r, n) = 0 THEN "absent" ELSE r[FindRecent(r, n)].status

\* caller c calls enqueue(p) in this step
EnqueueCalled(c, p) ==
    \/ /\ c[2] = "watch"
       /\ chan[c[1]] # <<>>
       /\ Head(chan[c[1]]) = p
       /\ chan'[c[1]] = Tail(chan[c[1]])
    \/ /\ c[2] = "scan"
       /\ p \in scan_todo[c[1]]
       /\ scan_todo'[c[1]] = scan_todo[c[1]] \ {p}

\* C1: no two items in the pending queue have the same path.
C1_QueuePathsDistinct ==
    \A j, k \in 1..Len(queue) : j # k => queue[j].path # queue[k].path

\* C2: a path held by the worker for an attempt in progress is not in the
\* pending queue too.
C2_NeverInFlightAndPending ==
    \A w \in Inst : InFlight(w) => ~InQueue(queue, Held(w).path)

\* C3: enqueue(p) with p in the queue changes neither the queue nor the
\* recent list; otherwise it adds one Pending record at the head of the
\* recent list and then one item with retry count 0 at the tail of the
\* queue, and p is still not in the queue when the item is pushed, whatever
\* the other callers of enqueue do in between.
C3_EnqueueIdempotent ==
    [][\A c \in Callers :
          /\ \A p \in AllPaths :
                EnqueueCalled(c, p) =>
                   IF InQueue(queue, p)
                   THEN queue' = queue /\ recent' = recent /\ enq' = enq
                   ELSE /\ queue' = queue
                        /\ enq'[c] = <<p>>
                        /\ Len(recent') = Min(Len(recent) + 1, MAX_RECENT)
                        /\ recent'[1] =
                              RecentUpload(FileName(p), "Pending", NoError)
                        /\ \A k \in 2..Len(recent') :
                              recent'[k] = recent[k - 1]
          /\ (enq[c] # <<>> /\ enq'[c] = <<>>) =>
                /\ ~InQueue(queue, enq[c][1])
                /\ queue' = Append(queue, QueueItem(enq[c][1], 0))
                /\ recent' = recent
      ]_vars

\* two callers race for the same path: one is inside enqueue(p), between
\* its add_recent and its push_back, and the other has p to enqueue next
C3_Witness ==
    \E i, j \in Inst :
       /\ enq[<<j, "scan">>] # <<>>
       /\ chan[i] # <<>>
       /\ Head(chan[i]) = enq[<<j, "scan">>][1]

\* C4: while the last health probe said offline, the worker holds no item:
\* it has dequeued nothing since that probe.
C4_OfflineLeavesQueue ==
    ~is_online => \A w \in Inst : ~Holding(w)

\* C5: at most one item is in flight at any time.
C5_AtMostOneInFlight ==
    Cardinality({w \in Inst : InFlight(w)}) <= 1

\* C6: after a failed upload the retry count is incremented; below
\* MAX_RETRIES the item is appended to the tail of the queue with that
\* count; the worker lets go of an item only after a validation failure, a
\* success, that push, or the failure that makes the count MAX_RETRIES.
C6_RetriedBelowBudget ==
    [][\A w \in Inst :
          /\ (pc[w] = "fail_clear" /\ pc'[w] # "fail_clear") =>
                /\ item'[w] =
                      <<QueueItem(Held(w).path, Held(w).retries + 1)>>
                /\ pc'[w] = IF Held(w).retries + 1 < MAX_RETRIES
                            THEN "retry_mark" ELSE "giveup_mark"
          /\ (pc[w] = "retry_mark" /\ pc'[w] # "retry_mark") =>
                pc'[w] = "retry_push" /\ item'[w] = item[w]
          /\ (pc[w] = "retry_push" /\ pc'[w] # "retry_push") =>
                /\ pc'[w] = "backoff"
                /\ Held(w).retries \in 1..(MAX_RETRIES - 1)
                /\ queue' = Append(queue, Held(w))
                /\ item'[w] = item[w]
          /\ (pc[w] # "backoff" /\ pc'[w] = "backoff") =>
                pc[w] = "retry_push"
          /\ (Holding(w) /\ item'[w] = <<>>) =>
                \/ pc[w] \in {"val_clear", "succ_clear", "backoff"}
                \/ pc[w] = "giveup_mark" /\ Held(w).retries = MAX_RETRIES
      ]_vars

\* an item that failed is back at the tail of the queue with its count
C6_Witness ==
    \E w \in Inst :
       /\ pc[w] = "backoff"
       /\ Held(w).retries >= 2
       /\ queue # <<>>
       /\ queue[Len(queue)] = Held(w)

\* C7: when the worker gives an item up after its last failure, the record
\* of its file is Failed and the queue holds no item for the file.
C7_GivenUpIsGone ==
    [][\A w \in Inst :
          (pc[w] = "giveup_mark" /\ pc'[w] = "top") =>
             /\ StatusOf(recent', HeldName(w)) = "Failed"
             /\ ~InQueue(queue', Held(w).path)
      ]_vars

C9_ValidationFailureIsFinal ==
    [][\A w \in Inst :
          /\ (pc[w] # "upload" /\ pc'[w] = "upload") =>
                /\ pc[w] = "validate"
                /\ fs[HeldName(w)].exists
                /\ fs[HeldName(w)].size > 0
                /\ fs[HeldName(w)].size <= MAX_FILE_SIZE
          /\ (pc[w] = "validate" /\ pc'[w] \notin {"validate", "upload"}) =>
                /\ pc'[w] = "val_mark"
                /\ item'[w] = item[w]
                /\ queue' = queue
          /\ (pc[w] = "val_mark" /\ pc'[w] # "val_mark") =>
                /\ pc'[w] = "val_clear"
                /\ FindRecent(recent, HeldName(w)) # 0 =>
                      /\ StatusOf(recent', HeldName(w)) = "Failed"
                      /\ recent'[FindRecent(recent', HeldName(w))].error
                            # NoError
                /\ item'[w] = item[w]
                /\ queue' = queue
          /\ (pc[w] = "val_clear" /\ pc'[w] # "val_clear") =>
                /\ pc'[w] = "top"
                /\ ~is_uploading'
                /\ item'[w] = <<>>
                /\ queue' = queue
      ]_vars

\* the worker has turned a file down and its record says Failed
C9_Witness ==
    \E w \in Inst :
       /\ pc[w] = "val_clear"
       /\ StatusOf(recent, HeldName(w)) = "Failed"
       /\ outcome[w][1] = "invalid"

\* C10: the file the worker is about to pass to the upload step is not
\* being written.
C10_NeverUploadsWhileWritten ==
    \A w \in Inst : pc[w] = "upload" => ~fs[HeldName(w)].writing

\* C11: the watcher sends a path on the channel only at the end of a probe
\* of that path whose two samples were read, are equal and are not zero; a
\* probe that ends otherwise sends nothing; and the watcher thread enqueues
\* nothing but the paths it receives from the channel.
C11_PublishedOnlyIfStable ==
    [][\A i \in Inst :
          /\ chan'[i] # chan[i] =>
                \/ /\ chan[i] # <<>>
                   /\ chan'[i] = Tail(chan[i])
                \/ /\ probe[i] # <<>>
                   /\ probe'[i] = <<>>
                   /\ fs[probe[i][1].name].exists
                   /\ fs[probe[i][1].name].size = probe[i][1].first_size
                   /\ probe[i][1].first_size > 0
                   /\ chan'[i] = Append(chan[i], InboxPath(probe[i][1].name))
          /\ (probe[i] # <<>> /\ probe'[i] = <<>> /\ chan'[i] = chan[i]) =>
                \/ ~fs[probe[i][1].name].exists
                \/ fs[probe[i][1].name].size # probe[i][1].first_size
                \/ probe[i][1].first_size = 0
          /\ (enq[<<i, "watch">>] = <<>> /\ enq'[<<i, "watch">>] # <<>>) =>
                /\ chan[i] # <<>>
                /\ enq'[<<i, "watch">>] = <<Head(chan[i])>>
      ]_vars

\* a path has been published, and a probe of a file that is still empty
\* is about to end
C11_Witness ==
    \E i \in Inst :
       /\ chan[i] # <<>>
       /\ probe[i] # <<>>
       /\ probe[i][1].first_size = 0

\* C12: the recent list never holds more than MAX_RECENT records; an
\* insertion puts the new record at the head and moves every other record
\* one place towards the tail, so that the record that leaves a full list
\* is the one at the tail, the oldest; a status update changes no record's
\* place and no other record.
C12_RecentBounded ==
    /\ [](Len(recent) <= MAX_RECENT)
    /\ [][recent' # recent =>
             \/ /\ Len(recent') = Min(Len(recent) + 1, MAX_RECENT)
                /\ recent'[1].status = "Pending"
                /\ \A k \in 2..Len(recent') : recent'[k] = recent[k - 1]
             \/ /\ Len(recent') = Len(recent)
                /\ \E k \in 1..Len(recent) :
                      /\ recent'[k].name = recent[k].name
                      /\ \A j \in 1..Len(recent) :
                            j # k => recent'[j] = recent[j]
       ]_vars

\* the list is full after MaxRecentAdds insertions: it has overflowed, and
\* records of either status have moved through it
C12_Witness ==
    /\ fsops = 0
    /\ Len(recent) = MAX_RECENT
    /\ recent[1].status = "Success"
    /\ recent[MAX_RECENT].status = "Success"
    /\ recent[2].status = "Pending"

\* the edges a record's status may take
StatusEdges ==
    { <<"Pending", "Uploading">>, <<"Uploading", "Success">>,
      <<"Uploading", "Pending">>, <<"Uploading", "Failed">> }

\* C13: a record's status changes only along Pending -> Uploading ->
\* {Success, Pending, Failed}: in a step that adds no record, every record
\* keeps its status or takes one of these edges.
C13_StatusMovesForward ==
    [][Len(recent') = Len(recent) =>
          \A k \in 1..Len(recent) :
             \/ recent'[k].status = recent[k].status
             \/ <<recent[k].status, recent'[k].status>> \in StatusEdges
      ]_vars

\* an item for path p that was enqueued and has not been dequeued since, or
\* is being enqueued: its record is the most recent one of p's name, and
\* was created after the record of any item for p that a worker holds
FreshlyEnqueued(p) ==
    \/ \E k \in 1..Len(queue) : queue[k].path = p /\ queue[k].retries = 0
    \/ \E c \in Callers : enq[c] = <<p>>

\* C14: a status update for an item changes the record that was created
\* when the item was enqueued: the worker never writes the status of the
\* item it holds while the most recent record of that name is the record
\* of another, later item.
C14_UpdateHitsOwnRecord ==
    [][\A w \in Inst :
          (/\ Holding(w)
           /\ pc'[w] # pc[w]
           /\ recent' # recent
           /\ Len(recent') = Len(recent))
          => ~FreshlyEnqueued(Held(w).path)
      ]_vars

\* the delays of the claim, by retry count
BackoffTable == <<10, 20, 40, 80, 160, 320, 320, 320, 320>>

\* C15: the worker sleeps its backoff only with an item whose retry count k
\* is in 1..9, for 5 * 2^min(k,6) seconds: 10, 20, 40, 80, 160, 320 and
\* then 320 again; the delays never decrease and never exceed 320; after
\* the failure that makes the count MAX_RETRIES the worker goes back to the
\* top of its loop with no backoff sleep.
C15_BackoffSchedule ==
    /\ [](\A w \in Inst :
            pc[w] = "backoff" =>
               /\ Held(w).retries \in 1..Len(BackoffTable)
               /\ BackoffDelay(Held(w).retries)
                     = BackoffTable[Held(w).retries]
               /\ BackoffDelay(Held(w).retries) <= 320
               /\ \A k \in 1..(Held(w).retries - 1) :
                     BackoffDelay(k) <= BackoffDelay(k + 1))
    /\ [][\A w \in Inst :
             /\ (pc[w] = "giveup_mark" /\ pc'[w] # "giveup_mark") =>
                   pc'[w] = "top" /\ Held(w).retries = MAX_RETRIES
             /\ (pc[w] # "backoff" /\ pc'[w] = "backoff") =>
                   Held(w).retries < MAX_RETRIES
       ]_vars

\* the worker sleeps after an item's 9th failure, with the capped delay
C15_Witness ==
    \E w \in Inst :
       /\ pc[w] = "backoff"
       /\ Held(w).retries = MAX_RETRIES - 1
       /\ BackoffDelay(Held(w).retries) = 320

\* C16: the queue changes only at its two ends: the worker takes the item
\* at the head, and enqueue and the retry put an item at the tail, behind
\* every item that is pending; so the items are attempted in the order in
\* which they entered the queue, and the items pending when an item fails
\* are attempted before that item is attempted again.
C16_FifoOrder ==
    [][queue' # queue =>
          \/ /\ queue # <<>>
             /\ queue' = Tail(queue)
             /\ \E w \in Inst :
                   /\ ~Holding(w)
                   /\ item'[w] = <<Head(queue)>>
          \/ /\ Len(queue') = Len(queue) + 1
             /\ \A k \in 1..Len(queue) : queue'[k] = queue[k]
             /\ \/ \E w \in Inst :
                      /\ pc[w] = "retry_push"
                      /\ queue'[Len(queue')] = Held(w)
                   \/ \E c \in Callers :
                      /\ enq[c] # <<>>
                      /\ queue'[Len(queue')] = QueueItem(enq[c][1], 0)
      ]_vars

\* an item that failed is behind an item of another file that was pending
\* when it failed
C16_Witness ==
    \E w \in Inst :
       /\ pc[w] = "backoff"
       /\ Len(queue) >= 2
       /\ queue[Len(queue)] = Held(w)
       /\ queue[1].path # Held(w).path

\* C17: a file is delivered at most once.  A file that the user created
\* and wrote to, in the two operations of the run, and that is still open
\* for writing, is one file: when its upload has just succeeded, no record
\* of its name says that an upload of it succeeded before.
C17_DeliveredAtMostOnce ==
    \A w \in Inst :
       (/\ pc[w] = "succ_mark"
        /\ fs[HeldName(w)].writing
        /\ fsops = MaxFsOps - 2)
       => \A k \in 1..Len(recent) :
             recent[k].name = HeldName(w) => recent[k].status # "Success"


\* the text fragments of the underlying errors: of the operating system, of
\* the keyring lookups, of the request and of the server's answer
RawFragments ==
    {"os error", "Not authenticated", "No user ID found",
     "Failed to read file", "Upload request failed", "connection",
     "Upload failed", "413"}

\* C18: raw error strings are never stored in a record.  The error message
\* of every record of the recent list contains no text fragment taken from
\* an underlying error.
C18_NoRawErrorText ==
    \A k \in 1..Len(recent) :
       \A frag \in RawFragments : ~Contains(recent[k].error, frag)


\* C19: a missing token and a missing user id are both shown as an
\* authorization error.  An upload attempted while the token or the user id
\* is not stored fails, and the message then written to the record of the
\* item's name is the authorization message, behind the retry counter while
\* the item is retried.
C19_MissingCredentialIsAuthError ==
    [][\A w \in Inst :
          /\ (/\ pc[w] = "upload" /\ pc'[w] # "upload"
              /\ creds # StoredCredentials)
             => /\ pc'[w] = "fail_clear"
                /\ outcome'[w][2] \in {ErrNotAuthenticated, ErrNoUserId}
          /\ (/\ pc[w] \in {"retry_mark", "giveup_mark"} /\ pc'[w] # pc[w]
              /\ outcome[w][2] \in {ErrNotAuthenticated, ErrNoUserId}
              /\ FindRecent(recent, HeldName(w)) # 0)
             => recent'[FindRecent(recent, HeldName(w))].error
                   = IF pc[w] = "retry_mark"
                     THEN RetryMessage(Held(w).retries,
                                       <<"Sin autorizacion">>)
                     ELSE <<"Sin autorizacion">>]_vars


\* C20: an upload answered with HTTP 413 is a retryable upload failure.
\* The attempt ends as a failed upload, not as an invalid file.  While the
\* item has failed fewer than MAX_RETRIES times, the record of its name is
\* set to Pending with the message of a file too large behind the retry
\* counter, and the item is then appended to the queue; at the failure
\* number MAX_RETRIES the record is set to Failed with that same message
\* and the worker lets go of the item.
C20_TooLargeIsRetried ==
    [][\A w \in Inst :
          /\ (/\ pc[w] = "upload" /\ pc'[w] # "upload"
              /\ outcome'[w][2] = <<"Upload failed", "413">>)
             => /\ pc'[w] = "fail_clear"
                /\ outcome'[w][1] = "failed"
          /\ (/\ pc[w] = "retry_mark" /\ pc'[w] # "retry_mark"
              /\ outcome[w][2] = <<"Upload failed", "413">>)
             => /\ Held(w).retries < MAX_RETRIES
                /\ pc'[w] = "retry_push"
                /\ FindRecent(recent, HeldName(w)) # 0
                   => recent'[FindRecent(recent, HeldName(w))] =
                         RecentUpload(HeldName(w), "Pending",
                            <<"Reintentando", ToString(Held(w).retries),
                              ToString(MAX_RETRIES),
                              "El servidor rechazo el archivo por ser muy grande">>)
          /\ (/\ pc[w] = "retry_push" /\ pc'[w] # "retry_push"
              /\ outcome[w][2] = <<"Upload failed", "413">>)
             => queue' = Append(queue, Held(w))
          /\ (/\ pc[w] = "giveup_mark" /\ pc'[w] # "giveup_mark"
              /\ outcome[w][2] = <<"Upload failed", "413">>)
             => /\ Held(w).retries = MAX_RETRIES
                /\ item'[w] = <<>>
                /\ queue' = queue
                /\ FindRecent(recent, HeldName(w)) # 0
                   => recent'[FindRecent(recent, HeldName(w))] =
                         RecentUpload(HeldName(w), "Failed",
                            <<"El servidor rechazo el archivo por ser muy grande">>)]_vars

\* ten uploads of a file were answered with 413 and its record is Failed
\* with the message of a file too large
C20_Witness ==
    /\ faults = 0
    /\ \E k \in 1..Len(recent) :
          /\ recent[k].status = "Failed"
          /\ recent[k].error =
                <<"El servidor rechazo el archivo por ser muy grande">>
    /\ \A w \in Inst : item[w] = <<>>


\* the paths that have reached enqueue or are on their way to it: those of
\* the scan not yet enqueued, those published on a channel, those an
\* enqueue call holds, and those in the queue
EnqueuePaths ==
    UNION {scan_todo[i] : i \in Inst}
    \cup UNION {{chan[i][k] : k \in 1..Len(chan[i])} : i \in Inst}
    \cup UNION {{enq[c][k] : k \in 1..Len(enq[c])} : c \in Callers}
    \cup {queue[k].path : k \in 1..Len(queue)}

\* entry n of the inbox is one the filter lets through: not hidden, not on
\* the deny-list, without an ignored prefix or suffix, not the archive
\* subfolder, not a directory
PassesFilter(n) ==
    /\ Head(n) # "."
    /\ n \notin IGNORED_EXACT
    /\ \A p \in IGNORED_PREFIXES : ~StartsWith(n, p)
    /\ \A x \in IGNORED_SUFFIXES : ~EndsWith(n, x)
    /\ n # UPLOADED_FOLDER
    /\ ~fs[n].dir

\* C21: no ignored path is ever enqueued.  Every path on its way to enqueue
\* or past it is directly in the inbox and passes the filter, and the
\* startup scan yields the paths of the entries that exist and pass it: of
\* a.pdf and .DS_Store, a.pdf only.
C21_NoIgnoredPathEnqueued ==
    /\ [](\A p \in EnqueuePaths :
             p.parent = INBOX /\ PassesFilter(FileName(p)))
    /\ [][svc[1] = "off" /\ svc'[1] = "scan"
          => /\ scan_todo'[1] =
                   {InboxPath(n) : n \in {m \in IgnoreNames :
                       fs[m].exists /\ PassesFilter(m)}}
             /\ InboxPath(<<".", "D", "S", "_", "S", "t", "o", "r", "e">>)
                   \notin scan_todo'[1]
             /\ fs[<<"a", ".", "p", "d", "f">>].exists
                => scan_todo'[1] =
                      {InboxPath(<<"a", ".", "p", "d", "f">>)}]_vars

\* the scan of an inbox that held a.pdf, .DS_Store and a directory has been
\* enqueued: the queue holds a.pdf alone
C21_Witness ==
    /\ svc[1] = "scan" /\ scan_todo[1] = {}
    /\ fs[<<"a", ".", "p", "d", "f">>].exists
    /\ fs[<<".", "D", "S", "_", "S", "t", "o", "r", "e">>].exists
    /\ fs[<<"d">>].dir
    /\ queue = <<QueueItem(InboxPath(<<"a", ".", "p", "d", "f">>), 0)>>


\* C22: a failed post-upload disposition changes nothing but the log.  The
\* step in which the delete or the move fails leaves the recent list, the
\* queue and the item's retry count as they are; a record of the item's
\* name stays Success from the mark to the end of the attempt; and the step
\* that ends the attempt clears the in-flight flag and lets go of the item
\* without pushing it.
C22_DispositionFailureIsIgnored ==
    /\ [](\A w \in Inst :
             pc[w] \in {"dispose", "succ_clear"}
             => \E k \in 1..Len(recent) :
                   /\ recent[k].name = HeldName(w)
                   /\ recent[k].status = "Success")
    /\ [][\A w \in Inst :
             /\ (pc[w] = "dispose" /\ pc'[w] # "dispose"
                 /\ outcome'[w][1] = "kept")
                => /\ pc'[w] = "succ_clear"
                   /\ fs' = fs /\ archive' = archive
                   /\ recent' = recent
                   /\ queue' = queue
                   /\ item' = item
                   /\ faults' = faults
             /\ (pc[w] = "succ_clear" /\ pc'[w] # "succ_clear"
                 /\ outcome[w][1] = "kept")
                => /\ pc'[w] = "top"
                   /\ is_uploading' = FALSE
                   /\ recent' = recent
                   /\ queue' = queue
                   /\ item'[w] = <<>>]_vars

\* the one file dropped into the inbox was uploaded, its disposition failed
\* and the attempt has ended: the file is still there, its record is
\* Success, the queue is empty and the flag is clear
C22_Witness ==
    /\ fsops = MaxFsOps - 1
    /\ fs[NameOrder[1]].exists
    /\ recent = <<RecentUpload(NameOrder[1], "Success", NoError)>>
    /\ queue = <<>>
    /\ ~is_uploading
    /\ pc[1] = "top" /\ item[1] = <<>>


\* UploadManager::queue_size and UploadManager::is_uploading, as a reader
\* that takes both at the same instant gets them
queue_size == Len(queue)
uploading == is_uploading

\* the worker holds an item whose processing has not ended: it was taken
\* from the queue and is neither uploaded, nor found invalid, nor given up
StillToProcess(w) ==
    pc[w] \in {"set_flag", "mark_uploading", "validate", "upload",
               "fail_clear", "retry_mark", "retry_push"}

\* C23: a status reader never sees an item that is still to be processed as
\* absent from both the pending queue and the in-flight flag: while the
\* worker holds such an item, the queue size read is not 0 or the flag read
\* is true.
C23_PendingItemVisible ==
    \A w \in Inst : StillToProcess(w) => queue_size > 0 \/ uploading


\* C24: a failure to start the watcher is final.  start_watching ends with
\* the watcher watching or with the error returned to its caller; once it
\* has returned the error the watcher is never started again, no event is
\* evaluated, no probe is made, nothing is on the channel and the watcher
\* thread enqueues nothing.
C24_WatchFailureIsFinal ==
    /\ [](\A i \in Inst :
             watcher[i] = "failed"
             => /\ dirty[i] = {} /\ probe[i] = <<>> /\ chan[i] = <<>>
                /\ enq[<<i, "watch">>] = <<>>)
    /\ [][\A i \in Inst :
             /\ watcher[i] = "failed" => watcher'[i] = "failed"
             /\ (watcher[i] = "starting" /\ watcher'[i] # "starting")
                => /\ watcher'[i] \in {"watching", "failed"}
                   /\ chan' = chan /\ queue' = queue]_vars

\* the watcher failed to start, and a finished file that arrived after the
\* scan sits in the inbox without ever having been enqueued
C24_Witness ==
    /\ watcher[1] = "failed"
    /\ fsops = 0
    /\ \E n \in Names : fs[n].exists /\ ~fs[n].writing /\ fs[n].size = 1
    /\ recent = <<>> /\ queue = <<>>
    /\ pc[1] = "empty_sleep"


\* C25: the probe does not hold up the evaluation of other events.  An
\* event that is due at a running watcher can be evaluated at once, also
\* while the probe of another path is between its two samples.
C25_ProbeDoesNotDelayEvents ==
    \A i \in Inst :
       \A n \in dirty[i] :
          watcher[i] = "watching" => ENABLED WatcherEvent(i, n)


\* the worker is in the failure branch of an attempt, past the statement
\* that forces the probe
AfterFailure(w) ==
    pc[w] \in {"retry_mark", "retry_push", "backoff", "giveup_mark"}

\* C26: after a failed upload the next iteration probes before it dequeues.
\* The probe is due from the failure to the end of the iteration, however
\* long ago the last one was made, so the worker is at the top of the loop
\* with the probe due; and there its next step is the probe, which takes
\* nothing from the queue.
C26_ProbeAfterFailure ==
    /\ [](\A w \in Inst :
             AfterFailure(w) => elapsed[w] >= 30)
    /\ [][\A w \in Inst :
             /\ (pc[w] = "fail_clear" /\ pc'[w] # "fail_clear")
                => AfterFailure(w)' /\ elapsed'[w] >= 30
             /\ (AfterFailure(w) /\ ~AfterFailure(w)')
                => pc'[w] = "top" /\ elapsed'[w] >= 30
             /\ (pc[w] = "top" /\ elapsed[w] >= 30 /\ pc'[w] # "top")
                => /\ pc'[w] \in {"dequeue", "offline_sleep"}
                   /\ elapsed'[w] = 0
                   /\ queue' = queue /\ item' = item
                   /\ pc'[w] = "dequeue" <=> is_online']_vars

\* a file was given up at its tenth failure while another item is pending:
\* the worker is at the top of the loop with the probe due
C26_Witness ==
    /\ pc[1] = "top" /\ elapsed[1] = HEALTH_CHECK_INTERVAL
    /\ faults = 0
    /\ queue # <<>>
    /\ \E k \in 1..Len(recent) :
          recent[k].status = "Failed" /\ recent[k].error = <<"Error de conexion">>


\* path p is in the pipeline: in the queue, or held by the worker for an
\* attempt or a retry
InPipeline(p) ==
    InQueue(queue, p) \/ \E w \in Inst : Holding(w) /\ Held(w).path = p

C28_BackoffDoesNotBlock ==
    \A w \in Inst :
       (/\ pc[w] = "backoff"
        /\ \E k \in 1..Len(queue) : queue[k].path # Held(w).path)
       => ENABLED Dequeue(w)


\* C29: the in-flight flag is false whenever a worker sleeps: in its
\* empty-queue sleep, its offline sleep or its backoff sleep.
C29_FlagClearWhileAsleep ==
    \A w \in Inst :
       pc[w] \in {"empty_sleep", "offline_sleep", "backoff"} => ~is_uploading


\* C30: every item in the pending queue has a retry count from 0 to 9.
\* enqueue pushes an item with count 0; a failed upload adds exactly 1 to
\* the count of the item the worker holds; a validation failure leaves the
\* count and the queue as they are; and the worker pushes the item it
\* holds only with a count below 10.
C30_RetryCountInRange ==
    /\ [](\A k \in 1..Len(queue) : queue[k].retries \in 0..9)
    /\ [][/\ \A c \in Callers :
                (enq[c] # <<>> /\ enq'[c] = <<>>)
                => queue' = Append(queue, [path |-> enq[c][1], retries |-> 0])
          /\ \A w \in Inst :
                /\ (pc[w] = "fail_clear" /\ pc'[w] # "fail_clear")
                   => /\ Held(w)'.retries = Held(w).retries + 1
                      /\ Held(w)'.path = Held(w).path
                      /\ queue' = queue
                /\ (pc[w] \in {"validate", "val_mark", "val_clear"}
                    /\ pc'[w] # pc[w])
                   => /\ queue' = queue
                      /\ item'[w] \in {item[w], <<>>}
                      /\ pc[w] = "val_clear" => item'[w] = <<>>
                /\ (pc[w] = "retry_push" /\ pc'[w] # "retry_push")
                   => /\ Held(w).retries \in 1..9
                      /\ queue' = Append(queue, Held(w))
                /\ (pc[w] = "giveup_mark" /\ pc'[w] # "giveup_mark")
                   => /\ Held(w).retries = 10
                      /\ queue' = queue /\ item'[w] = <<>>]_vars

\* an item that has failed nine times is in the queue behind a fresh one
C30_Witness ==
    /\ Len(queue) = 2
    /\ queue[1].retries = 0
    /\ queue[2].retries = 9
    /\ pc[1] = "top"


\* C31: at most one record of the recent list has the status Uploading.
C31_AtMostOneUploading ==
    Cardinality({k \in 1..Len(recent) : recent[k].status = "Uploading"}) <= 1


\* the mutexes thread t holds
HeldBy(t) == {x \in Mutexes : mutex[x] = <<t>>}

\* thread t is at a lock of mutex x
WaitsAt(t, x) == ops[t] # <<>> /\ Head(ops[t]) = <<"lock", x>>

\* C32: the shared state is deadlock-free.  A thread holds two mutexes only
\* inside enqueue, and then the queue and the recent list, the queue taken
\* first; no thread is at a lock of the queue while it holds the recent
\* list; a thread between two operations, as the worker is while it sleeps,
\* probes or uploads, holds nothing; no threads wait for each other in a
\* circle; and every thread inside an operation can take its next step, or
\* waits for a thread that can, or for one that waits for a thread that can.
\* (WaitsFor(t, u): thread t waits for a mutex that thread u holds.)
C32_DeadlockFree ==
    LET WaitsFor(t, u) == \E x \in Mutexes : WaitsAt(t, x) /\ mutex[x] = <<u>>
    IN
    /\ \A t \in Threads :
          /\ ops[t] = <<>> => HeldBy(t) = {}
          /\ Cardinality(HeldBy(t)) > 1
             => t \in {"scan", "watch"} /\ HeldBy(t) = {"queue", "recent"}
          /\ "recent" \in HeldBy(t) => ~WaitsAt(t, "queue")
          /\ ~WaitsFor(t, t)
          /\ HeldBy("worker") # {} => ENABLED UnlockStep("worker")
    /\ \A t, u \in Threads : ~(WaitsFor(t, u) /\ WaitsFor(u, t))
    /\ \A t \in Threads :
          ops[t] # <<>> =>
             \/ ENABLED (LockStep(t) \/ UnlockStep(t))
             \/ \E u \in Threads :
                   /\ WaitsFor(t, u)
                   /\ \/ ENABLED (LockStep(u) \/ UnlockStep(u))
                      \/ \E v \in Threads :
                            /\ WaitsFor(u, v)
                            /\ ENABLED (LockStep(v) \/ UnlockStep(v))

\* the watcher thread is inside enqueue with the queue locked and is at the
\* lock of the recent list, which the worker holds for a status update,
\* while the scan loop and a status reader wait for the queue
C32_Witness ==
    /\ mutex["queue"] = <<"watch">>
    /\ WaitsAt("watch", "recent")
    /\ mutex["recent"] = <<"worker">>
    /\ WaitsAt("scan", "queue")
    /\ WaitsAt("status", "queue")


C34_EverySuccessNotified ==
    [][unseen /\ ~unseen'
       => SuccessCount(recent) > last_success_count /\ shown' > 0]_vars


\* C35: an item passes validation exactly when its metadata is readable and
\* 0 < size <= 200 * 1024 * 1024.  The validation step goes on to the upload
\* exactly when the file is there and its size is in that range, and to the
\* Failed mark otherwise; a file of 209715200 bytes goes on to the upload,
\* a file of 209715201 bytes is rejected as too large.
C35_ValidationBoundary ==
    [][\A w \in Inst :
          pc[w] = "validate" /\ pc'[w] # "validate"
          => LET f == fs[FileName(Held(w).path)] IN
             /\ pc'[w] \in {"upload", "val_mark"}
             /\ pc'[w] = "upload"
                <=> f.exists /\ 0 < f.size /\ f.size <= 200 * 1024 * 1024
             /\ f.exists /\ f.size = 209715200 => pc'[w] = "upload"
             /\ f.exists /\ f.size = 209715201
                => /\ pc'[w] = "val_mark"
                   /\ outcome'[w] =
                         Outcome("invalid", <<"Archivo demasiado grande">>)
             /\ ~f.exists => pc'[w] = "val_mark"]_vars

\* the worker has validated a file of 209715200 bytes and is about to
\* upload it
C35_Witness ==
    /\ pc[1] = "upload"
    /\ Holding(1)
    /\ fs[FileName(Held(1).path)].exists
    /\ fs[FileName(Held(1).path)].size = 209715200

=============================================================================
